---- MODULE Spec2Model ----
(***************************************************************************)
(* A model of nodegui-builder's packageApp: the project copier, the        *)
(* dependency resolver, the runtime staging, the launcher emitter and the   *)
(* compile step, over an explicit file system.                              *)
(*                                                                          *)
(* Strings are sequences of tokens (a token is a piece of text that the     *)
(* model never looks inside); the path separator is the token sep.  A path  *)
(* is a sequence of components, a component is a string without sep.        *)
(***************************************************************************)
EXTENDS Integers, Sequences, FiniteSets, TLC

VARIABLES
  fs,               \* the file system: absolute path -> node
  config,           \* the options of the running packageApp call
  impl,             \* which packageApp is running: "part_001" or "index.js"
  pc,               \* the position of the run inside packageApp
  run,              \* number of the packageApp call (1, 2, ...)
  calls,            \* how many calls the caller makes in succession
  ignoredDirs,      \* the copier's exclusion list (strings)
  copyStack,        \* call stack of copyDirRecursive: frames [src, dest, entries]
  directDependencies, \* sequence of names
  allDependencies,  \* sequence of names without repetition (a JS Set)
  processedDeps,    \* set of names (keys of the JS Map)
  resolveQueue,     \* direct dependencies the outer loop has still to visit
  resolveStack,     \* call stack of findNestedDependencies: frames [name, todo]
  depCursor,        \* index into allDependencies of the next dependency to copy
  log,              \* what the run logged: set of [kind, about]
  error,            \* the error the run threw, "none" when it threw none
  returned          \* the value packageApp returned, <<>> when it returned none

vars == <<fs, config, impl, pc, run, calls, ignoredDirs, copyStack,
          directDependencies, allDependencies, processedDeps, resolveQueue,
          resolveStack, depCursor, log, error, returned>>

----------------------------------------------------------------------------
(* Strings *)

sep == "/"

\* deepest call stack of the resolver the model follows
MaxStack == 6

StartsWith(s, p) == Len(p) <= Len(s) /\ SubSeq(s, 1, Len(p)) = p

RECURSIVE JoinStr(_)
\* comps joined by the separator: path.join of relative components
JoinStr(comps) ==
  IF comps = <<>> THEN <<>>
  ELSE IF Len(comps) = 1 THEN comps[1]
  ELSE comps[1] \o <<sep>> \o JoinStr(Tail(comps))

RECURSIVE SplitStr(_)
\* the components of a string: the pieces between separators
SplitStr(s) ==
  IF s = <<>> THEN <<>>
  ELSE LET idx == {i \in 1..Len(s) : s[i] = sep} IN
       IF idx = {} THEN <<s>>
       ELSE LET i == CHOOSE k \in idx : \A j \in idx : k <= j IN
            <<SubSeq(s, 1, i - 1)>> \o SplitStr(SubSeq(s, i + 1, Len(s)))

\* the string of an absolute path: every component preceded by the separator
RECURSIVE AbsStr(_)
AbsStr(p) == IF p = <<>> THEN <<>> ELSE <<sep>> \o p[1] \o AbsStr(Tail(p))

CommonLen(a, b) ==
  LET ks == {k \in 0..Len(a) : k <= Len(b) /\ SubSeq(a, 1, k) = SubSeq(b, 1, k)}
  IN CHOOSE k \in ks : \A j \in ks : j <= k

\* path.relative(from, to) of two absolute paths, as a string
Relative(from, to) ==
  LET k == CommonLen(from, to) IN
  JoinStr([i \in 1..(Len(from) - k) |-> <<"..">>] \o SubSeq(to, k + 1, Len(to)))

\* path.join(base, s) for an absolute base and a relative string without dots
PathJoin(base, s) == base \o SplitStr(s)

IsPrefix(p, q) == Len(p) <= Len(q) /\ SubSeq(q, 1, Len(p)) = p
Under(p, q) == IsPrefix(p, q) /\ p # q        \* q lies strictly below p
Parent(p) == SubSeq(p, 1, Len(p) - 1)
Last(p) == p[Len(p)]

----------------------------------------------------------------------------
(* The file system *)

NoData == [text |-> "", deps |-> <<>>]
DirNode(r) == [kind |-> "dir", data |-> NoData, run |-> r]
FileNode(d, r) == [kind |-> "file", data |-> d, run |-> r]
Text(t) == [text |-> t, deps |-> <<>>]
Json(deps) == [text |-> "json", deps |-> deps]
\* a manifest that does not parse; deps are the names its text mentions
Broken(deps) == [text |-> "not json", deps |-> deps]

Exists(f, p) == p \in DOMAIN f
IsDir(f, p) == p \in DOMAIN f /\ f[p].kind = "dir"
IsFile(f, p) == p \in DOMAIN f /\ f[p].kind = "file"
Prefixes(p) == {SubSeq(p, 1, k) : k \in 0..Len(p)}

\* fs.readdir / fs.readdirSync: the names of the entries of directory p
ReadDir(f, p) == {Last(q) : q \in {x \in DOMAIN f : Len(x) = Len(p) + 1 /\ IsPrefix(p, x)}}

\* fs.ensureDir: p and its missing ancestors become directories
EnsureDir(f, p, r) ==
  [q \in DOMAIN f \cup Prefixes(p) |-> IF q \in DOMAIN f THEN f[q] ELSE DirNode(r)]

Remove(f, p) == [q \in {x \in DOMAIN f : ~IsPrefix(p, x)} |-> f[q]]

\* fs.emptyDir: p exists as a directory and has no entries
EmptyDirKeep(f, p, r) == EnsureDir(f, p, r)
EmptyDir(f, p, r) ==
  LET g == EnsureDir(f, p, r) IN [q \in {x \in DOMAIN g : ~Under(p, x)} |-> g[q]]

\* fs.writeFile: p becomes a file holding d
WriteFile(f, p, d, r) ==
  [q \in DOMAIN f \cup {p} |-> IF q = p THEN FileNode(d, r) ELSE f[q]]

\* fs.copy throws when src is missing or dest lies at or below src
CanCopy(f, src, dest) == Exists(f, src) /\ ~IsPrefix(src, dest)

\* fs.copy(src, dest): a file is written over dest; a directory is merged into
\* dest, entry by entry; the ancestors of dest are created
CopyTree(f, src, dest, r) ==
  LET moved == {q \in DOMAIN f : IsPrefix(src, q)}
      Target(q) == dest \o SubSeq(q, Len(src) + 1, Len(q))
      Origin(x) == src \o SubSeq(x, Len(dest) + 1, Len(x))
      targets == {Target(q) : q \in moved}
      g == EnsureDir(f, Parent(dest), r)
  IN [x \in DOMAIN g \cup targets |->
        IF x \notin targets THEN g[x]
        ELSE IF f[Origin(x)].kind = "dir" /\ IsDir(g, x) THEN g[x]
        ELSE [f[Origin(x)] EXCEPT !.run = r]]

----------------------------------------------------------------------------
(* The configuration of a call and the paths packageApp derives from it *)

cwd == << <<"w">> >>

\* path.resolve of a directory option: a relative one is taken from cwd
Resolve(d) == IF d.rel THEN cwd \o d.comps ELSE d.comps

sourceDirAbs == Resolve(config.sourceDir)
outputDirAbs == config.outputDir
appDirAbs == outputDirAbs \o <<config.appName>>

isOutputInSource ==
  \/ StartsWith(AbsStr(appDirAbs), AbsStr(sourceDirAbs) \o <<sep>>)
  \/ AbsStr(appDirAbs) = AbsStr(sourceDirAbs)

NODE_MODULES == sourceDirAbs \o << <<"node_modules">> >>
NODEGUI_DIR == NODE_MODULES \o << <<"@nodegui">> >>
NODEGUI_PATH == NODEGUI_DIR \o << <<"nodegui">> >>
QODE_PATH == NODEGUI_DIR \o << <<"qode">>, <<"binaries">>, <<"qode", ".exe">> >>
MINIQT_PATH == NODEGUI_PATH \o << <<"miniqt">> >>

mainFilePath == PathJoin(sourceDirAbs, config.mainFile)
destMainFilePath == PathJoin(appDirAbs, config.mainFile)

Logged(kind, about) == log \cup {[kind |-> kind, about |-> about]}

----------------------------------------------------------------------------
(* The project copier *)

fixedIgnoredDirs ==
  << <<"node_modules">>, <<".git">>, <<".git", "hub">>, <<"coverage">>,
     <<".vscode">>, <<".idea">> >>

\* the exclusion list of a call: the fixed entries and, when the application
\* directory lies inside the source directory, the output directory's
\* relative path unless it is empty
IgnoredDirsOf ==
  LET relativeOutputPath == Relative(sourceDirAbs, outputDirAbs) IN
  IF isOutputInSource /\ relativeOutputPath # <<>>
  THEN Append(fixedIgnoredDirs, relativeOutputPath)
  ELSE fixedIgnoredDirs

\* the exclusion test of copyDirRecursive on one relative path
ShouldIgnoreNoSep(dirs, relativePath) ==
  \E i \in 1..Len(dirs) :
    \/ relativePath = dirs[i]
    \/ relativePath # <<>> /\ StartsWith(relativePath, dirs[i])
ShouldIgnore(dirs, relativePath) ==
  \E i \in 1..Len(dirs) :
    \/ relativePath = dirs[i]
    \/ relativePath # <<>> /\ StartsWith(relativePath, dirs[i] \o <<sep>>)

\* a call of copyDirRecursive(src, dest) that has read its directory
FrameFilesOnly(f, src, dest) ==
  [src |-> src, dest |-> dest,
   entries |-> {n \in ReadDir(f, src) : IsFile(f, Append(src, n))}]
Frame(f, src, dest) == [src |-> src, dest |-> dest, entries |-> ReadDir(f, src)]
Top(stack) == stack[Len(stack)]
Pop(stack) == SubSeq(stack, 1, Len(stack) - 1)

\* the path the exclusion test looks at: relative to the root of the copy
RelativePathOf(srcPath) == Relative(sourceDirAbs, srcPath)

FailWrapped(e) == pc' = "Failed" /\ error' = "Packaging failed"
Fail(e) == pc' = "Failed" /\ error' = e

\* packageApp up to the first call of copyDirRecursive: the application
\* directory is created and emptied, the exclusion list is built, and the
\* copier reads the source directory and creates its destination
Start ==
  /\ pc = "Initialized"
  /\ LET f1 == EmptyDir(EnsureDir(fs, appDirAbs, run), appDirAbs, run) IN
     IF impl = "index.js"
     THEN /\ fs' = f1
          /\ pc' = "StagingProject"
          /\ UNCHANGED <<ignoredDirs, copyStack, error>>
     ELSE /\ ignoredDirs' = IgnoredDirsOf
          /\ IF IsDir(f1, sourceDirAbs)
             THEN /\ fs' = EnsureDir(f1, appDirAbs, run)
                  /\ copyStack' = <<Frame(f1, sourceDirAbs, appDirAbs)>>
                  /\ pc' = "StagingProject"
                  /\ UNCHANGED error
             ELSE /\ fs' = f1
                  /\ Fail("ENOENT")
                  /\ UNCHANGED copyStack
  /\ UNCHANGED <<config, impl, run, calls, directDependencies, allDependencies,
                 processedDeps, resolveQueue, resolveStack, depCursor, log, returned>>

copierUnchanged ==
  UNCHANGED <<config, impl, run, calls, ignoredDirs, directDependencies,
              allDependencies, processedDeps, resolveQueue, resolveStack,
              depCursor, error, returned>>

\* the loop of a copyDirRecursive call has no entry left: the call returns,
\* and the outermost return ends the project copy
CopyReturn ==
  /\ pc = "StagingProject" /\ impl = "part_001"
  /\ Top(copyStack).entries = {}
  /\ copyStack' = Pop(copyStack)
  /\ pc' = IF Len(copyStack) = 1 THEN "StagingRuntime" ELSE pc
  /\ UNCHANGED <<fs, log>>
  /\ copierUnchanged

\* one iteration of the loop of copyDirRecursive, on the entry called name
CopyEntry(name) ==
  LET top == Top(copyStack)
      srcPath == Append(top.src, name)
      destPath == Append(top.dest, name)
      relativePath == RelativePathOf(srcPath)
      rest == [top EXCEPT !.entries = @ \ {name}]
      stack == Append(Pop(copyStack), rest)
  IN /\ pc = "StagingProject" /\ impl = "part_001"
     /\ name \in top.entries
     /\ \/ /\ ShouldIgnore(ignoredDirs, relativePath)
           /\ log' = Logged("skip", relativePath)
           /\ copyStack' = stack
           /\ UNCHANGED fs
        \/ /\ ~ShouldIgnore(ignoredDirs, relativePath)
           /\ IsDir(fs, srcPath)
           /\ fs' = EnsureDir(fs, destPath, run)
           /\ copyStack' = Append(stack, Frame(fs, srcPath, destPath))
           /\ UNCHANGED log
        \/ /\ ~ShouldIgnore(ignoredDirs, relativePath)
           /\ ~IsDir(fs, srcPath)
           /\ fs' = CopyTree(fs, srcPath, destPath, run)
           /\ copyStack' = stack
           /\ UNCHANGED log
     /\ UNCHANGED pc
     /\ copierUnchanged

CopyStep ==
  /\ pc = "StagingProject" /\ impl = "part_001"
  /\ \E name \in Top(copyStack).entries : CopyEntry(name)

\* index.js: the entry file is checked and copied alone
StageMainFile ==
  /\ pc = "StagingProject" /\ impl = "index.js"
  /\ IF ~Exists(fs, mainFilePath)
     THEN Fail("Main file not found") /\ UNCHANGED fs
     ELSE /\ fs' = CopyTree(EnsureDir(fs, Parent(destMainFilePath), run),
                            mainFilePath, destMainFilePath, run)
          /\ pc' = "StagingRuntime"
          /\ UNCHANGED error
  /\ UNCHANGED <<config, impl, run, calls, ignoredDirs, copyStack,
                 directDependencies, allDependencies, processedDeps,
                 resolveQueue, resolveStack, depCursor, log, returned>>

----------------------------------------------------------------------------
(* Runtime staging: node_modules, qode.exe and the @nodegui directory *)

appNodeModules == appDirAbs \o << <<"node_modules">> >>
appQode == appDirAbs \o << <<"qode", ".exe">> >>

StageRuntimeIfPresent ==
  /\ pc = "StagingRuntime"
  /\ LET f1 == EnsureDir(fs, appNodeModules, run)
         f2 == IF CanCopy(f1, QODE_PATH, appQode)
               THEN CopyTree(f1, QODE_PATH, appQode, run) ELSE f1
         dest == appNodeModules \o << <<"@nodegui">> >>
     IN fs' = IF CanCopy(f2, NODEGUI_DIR, dest)
              THEN CopyTree(f2, NODEGUI_DIR, dest, run) ELSE f2
  /\ pc' = "ReadingManifest"
  /\ UNCHANGED <<config, impl, run, calls, ignoredDirs, copyStack,
                 directDependencies, allDependencies, processedDeps,
                 resolveQueue, resolveStack, depCursor, log, error, returned>>
StageRuntime ==
  /\ pc = "StagingRuntime"
  /\ LET f1 == EnsureDir(fs, appNodeModules, run)
         f2 == CopyTree(f1, QODE_PATH, appQode, run)
         dest == appNodeModules \o << <<"@nodegui">> >>
     IN IF ~CanCopy(f1, QODE_PATH, appQode)
        THEN fs' = f1 /\ Fail("ENOENT")
        ELSE IF ~CanCopy(f2, NODEGUI_DIR, dest)
        THEN fs' = f2 /\ Fail("ENOENT")
        ELSE /\ fs' = CopyTree(f2, NODEGUI_DIR, dest, run)
             /\ pc' = "ReadingManifest"
             /\ UNCHANGED error
  /\ UNCHANGED <<config, impl, run, calls, ignoredDirs, copyStack,
                 directDependencies, allDependencies, processedDeps,
                 resolveQueue, resolveStack, depCursor, log, returned>>

----------------------------------------------------------------------------
(* Reading the project's package.json *)

reservedPrefix == <<"@nodegui", sep>>
IsReservedNever(dep) == FALSE
IsReserved(dep) == StartsWith(dep, reservedPrefix)

\* require(p) of a package.json.  p is [rel, comps]: Node loads an absolute
\* path as a file, and takes a relative string that does not begin with a dot
\* (what path.join makes of "proj" and of "./proj") for a module name, which
\* it does not find.  The result is [ok, deps]; ok is FALSE when require throws.
RequireJsonLenient(f, p) ==
  IF p.rel \/ ~IsFile(f, p.comps)
  THEN [ok |-> FALSE, deps |-> <<>>]
  ELSE [ok |-> TRUE, deps |-> f[p.comps].data.deps]
RequireJson(f, p) ==
  IF p.rel \/ ~IsFile(f, p.comps) \/ f[p.comps].data.text # "json"
  THEN [ok |-> FALSE, deps |-> <<>>]
  ELSE [ok |-> TRUE, deps |-> f[p.comps].data.deps]

RECURSIVE Unique(_)
\* [...new Set(list)]: the first occurrence of every element, in order
Unique(list) ==
  IF list = <<>> THEN <<>>
  ELSE LET init == Unique(SubSeq(list, 1, Len(list) - 1))
           x == list[Len(list)]
       IN IF \E i \in 1..Len(init) : init[i] = x THEN init ELSE Append(init, x)

Range(list) == {list[i] : i \in 1..Len(list)}
SetAdd(list, x) == IF x \in Range(list) THEN list ELSE Append(list, x)

\* new Set(directDependencies): the result set starts as the direct dependencies
SeedSetEmpty(list) == <<>>
SeedSet(list) == Unique(list)

packageJsonPath ==
  [rel |-> config.sourceDir.rel,
   comps |-> Append(config.sourceDir.comps, <<"package.json">>)]

\* the direct dependencies: the keys of the project's dependencies, the
\* additional modules, without the names of the runtime's namespace
DirectDependenciesOf ==
  LET found == Exists(fs, Resolve(packageJsonPath))
      json == RequireJson(fs, packageJsonPath)
      keys == IF found /\ json.ok THEN json.deps ELSE <<>>
      merged == IF Len(config.additionalModules) > 0
                THEN Unique(keys \o config.additionalModules) ELSE keys
  IN SelectSeq(merged, LAMBDA dep : ~IsReserved(dep))

ReadManifest ==
  /\ pc = "ReadingManifest"
  /\ directDependencies' = DirectDependenciesOf
  /\ allDependencies' = SeedSet(DirectDependenciesOf)
  /\ log' = IF ~Exists(fs, Resolve(packageJsonPath))
            THEN Logged("warn", <<"No package.json found">>)
            ELSE IF ~RequireJson(fs, packageJsonPath).ok
            THEN Logged("warn", <<"Error reading package.json">>)
            ELSE log
  /\ IF impl = "part_001"
     THEN /\ processedDeps' = {}
          /\ resolveQueue' = DirectDependenciesOf
          /\ resolveStack' = <<>>
          /\ pc' = "ResolvingDependencies"
          /\ UNCHANGED depCursor
     ELSE /\ pc' = "StagingDependencies"
          /\ depCursor' = 1
          /\ UNCHANGED <<processedDeps, resolveQueue, resolveStack>>
  /\ UNCHANGED <<fs, config, impl, run, calls, ignoredDirs, copyStack, error,
                 returned>>

----------------------------------------------------------------------------
(* The dependency resolver: findNestedDependencies and the loop calling it *)

modulePackageJsonPath(moduleName) ==
  PathJoin(NODE_MODULES, moduleName) \o << <<"package.json">> >>

\* a call findNestedDependencies(moduleName) up to its loop: [processed,
\* stack, warned].  A processed name returns at once; otherwise the name is
\* marked, and a manifest that exists and parses opens a loop over its keys
VisitUnmarked(moduleName, processed, stack) ==
  LET p == modulePackageJsonPath(moduleName)
      json == RequireJson(fs, [rel |-> FALSE, comps |-> p])
  IN IF moduleName \in processed \/ ~Exists(fs, p)
     THEN [processed |-> processed, stack |-> stack, warned |-> FALSE]
     ELSE IF ~json.ok
     THEN [processed |-> processed, stack |-> stack, warned |-> TRUE]
     ELSE [processed |-> processed \cup {moduleName},
           stack |-> Append(stack, [name |-> moduleName, todo |-> json.deps]),
           warned |-> FALSE]
VisitAlways(moduleName, processed, stack) ==
  LET p == modulePackageJsonPath(moduleName)
      json == RequireJson(fs, [rel |-> FALSE, comps |-> p])
  IN IF ~Exists(fs, p) \/ ~json.ok
     THEN [processed |-> processed \cup {moduleName}, stack |-> stack,
           warned |-> Exists(fs, p)]
     ELSE [processed |-> processed \cup {moduleName},
           stack |-> Append(stack, [name |-> moduleName, todo |-> json.deps]),
           warned |-> FALSE]
Visit(moduleName, processed, stack) ==
  LET p == modulePackageJsonPath(moduleName)
      json == RequireJson(fs, [rel |-> FALSE, comps |-> p])
  IN IF moduleName \in processed
     THEN [processed |-> processed, stack |-> stack, warned |-> FALSE]
     ELSE IF ~Exists(fs, p)
     THEN [processed |-> processed \cup {moduleName}, stack |-> stack,
           warned |-> FALSE]
     ELSE IF ~json.ok
     THEN [processed |-> processed \cup {moduleName}, stack |-> stack,
           warned |-> TRUE]
     ELSE [processed |-> processed \cup {moduleName},
           stack |-> Append(stack, [name |-> moduleName, todo |-> json.deps]),
           warned |-> FALSE]

resolverUnchanged ==
  UNCHANGED <<fs, config, impl, run, calls, ignoredDirs, copyStack,
              directDependencies, error, returned>>

\* the loop over the direct dependencies calls findNestedDependencies
ResolveOuter ==
  /\ pc = "ResolvingDependencies"
  /\ resolveStack = <<>> /\ resolveQueue # <<>>
  /\ Len(resolveStack) < MaxStack
  /\ LET v == Visit(Head(resolveQueue), processedDeps, resolveStack) IN
       /\ processedDeps' = v.processed
       /\ resolveStack' = v.stack
       /\ log' = IF v.warned THEN Logged("warn", Head(resolveQueue)) ELSE log
  /\ resolveQueue' = Tail(resolveQueue)
  /\ UNCHANGED <<allDependencies, depCursor, pc>>
  /\ resolverUnchanged

\* one iteration of the loop over a manifest's keys
ResolveNested ==
  /\ pc = "ResolvingDependencies"
  /\ resolveStack # <<>> /\ Top(resolveStack).todo # <<>>
  /\ Len(resolveStack) < MaxStack
  /\ LET top == Top(resolveStack)
         nestedDep == Head(top.todo)
         stack == Append(Pop(resolveStack), [top EXCEPT !.todo = Tail(@)])
         v == Visit(nestedDep, processedDeps, stack)
     IN IF IsReserved(nestedDep)
        THEN /\ resolveStack' = stack
             /\ UNCHANGED <<allDependencies, processedDeps, log>>
        ELSE /\ allDependencies' = SetAdd(allDependencies, nestedDep)
             /\ processedDeps' = v.processed
             /\ resolveStack' = v.stack
             /\ log' = IF v.warned THEN Logged("warn", nestedDep) ELSE log
  /\ UNCHANGED <<resolveQueue, depCursor, pc>>
  /\ resolverUnchanged

\* the loop over a manifest's keys is over: the call returns
ResolveReturn ==
  /\ pc = "ResolvingDependencies"
  /\ resolveStack # <<>> /\ Top(resolveStack).todo = <<>>
  /\ resolveStack' = Pop(resolveStack)
  /\ UNCHANGED <<allDependencies, processedDeps, resolveQueue, depCursor, log, pc>>
  /\ resolverUnchanged

\* the loop over the direct dependencies is over
ResolveDone ==
  /\ pc = "ResolvingDependencies"
  /\ resolveStack = <<>> /\ resolveQueue = <<>>
  /\ pc' = "StagingDependencies"
  /\ depCursor' = 1
  /\ UNCHANGED <<allDependencies, processedDeps, resolveQueue, resolveStack, log>>
  /\ resolverUnchanged

----------------------------------------------------------------------------
(* Copying the dependencies *)

modulePath(dep) == PathJoin(NODE_MODULES, dep)
appModulePath(dep) == PathJoin(appNodeModules, dep)

\* one iteration of the loop over allDependencies
StageDependencyThrows ==
  /\ pc = "StagingDependencies"
  /\ depCursor <= Len(allDependencies)
  /\ LET dep == allDependencies[depCursor] IN
       IF CanCopy(fs, modulePath(dep), appModulePath(dep))
       THEN /\ fs' = CopyTree(fs, modulePath(dep), appModulePath(dep), run)
            /\ depCursor' = depCursor + 1
            /\ UNCHANGED <<log, pc, error>>
       ELSE /\ Fail("ENOENT")
            /\ UNCHANGED <<fs, depCursor, log>>
  /\ UNCHANGED <<config, impl, run, calls, ignoredDirs, copyStack,
                 directDependencies, allDependencies, processedDeps,
                 resolveQueue, resolveStack, returned>>
StageDependency ==
  /\ pc = "StagingDependencies"
  /\ depCursor <= Len(allDependencies)
  /\ LET dep == allDependencies[depCursor] IN
       IF Exists(fs, modulePath(dep))
       THEN IF CanCopy(fs, modulePath(dep), appModulePath(dep))
            THEN /\ fs' = CopyTree(fs, modulePath(dep), appModulePath(dep), run)
                 /\ depCursor' = depCursor + 1
                 /\ UNCHANGED <<log, pc, error>>
            ELSE /\ Fail("Cannot copy to a subdirectory of itself")
                 /\ UNCHANGED <<fs, depCursor, log>>
       ELSE /\ log' = Logged("not found", dep)
            /\ depCursor' = depCursor + 1
            /\ UNCHANGED <<fs, pc, error>>
  /\ UNCHANGED <<config, impl, run, calls, ignoredDirs, copyStack,
                 directDependencies, allDependencies, processedDeps,
                 resolveQueue, resolveStack, returned>>

DependenciesStagedThenEmit ==
  /\ pc = "StagingDependencies"
  /\ depCursor > Len(allDependencies)
  /\ pc' = "EmittingLauncher"
  /\ UNCHANGED <<fs, config, impl, run, calls, ignoredDirs, copyStack,
                 directDependencies, allDependencies, processedDeps,
                 resolveQueue, resolveStack, depCursor, log, error, returned>>
DependenciesStaged ==
  /\ pc = "StagingDependencies"
  /\ depCursor > Len(allDependencies)
  /\ pc' = "StagingQt"
  /\ UNCHANGED <<fs, config, impl, run, calls, ignoredDirs, copyStack,
                 directDependencies, allDependencies, processedDeps,
                 resolveQueue, resolveStack, depCursor, log, error, returned>>

----------------------------------------------------------------------------
(* Qt libraries, plugins and qt.conf *)

EndsWith(s, x) == Len(x) <= Len(s) /\ SubSeq(s, Len(s) - Len(x) + 1, Len(s)) = x

pluginDirs == << <<"platforms">>, <<"styles">>, <<"imageformats">> >>

CopyIntoNothing(f, names, srcDir, destDir, r) == f
RECURSIVE CopyInto(_, _, _, _, _)
\* fs.copy of every entry of names from directory srcDir to directory destDir
CopyInto(f, names, srcDir, destDir, r) ==
  IF names = {} THEN f
  ELSE LET n == CHOOSE x \in names : TRUE IN
       CopyInto(IF Exists(f, Append(srcDir, n))
                THEN CopyTree(f, Append(srcDir, n), Append(destDir, n), r) ELSE f,
                names \ {n}, srcDir, destDir, r)

StageQt ==
  /\ pc = "StagingQt"
  /\ IF ~Exists(fs, MINIQT_PATH) \/ ReadDir(fs, MINIQT_PATH) = {}
     THEN /\ pc' = "EmittingLauncher"
          /\ UNCHANGED <<fs, error>>
     ELSE \E qtVersion \in ReadDir(fs, MINIQT_PATH) :
       LET qtPath == Append(MINIQT_PATH, qtVersion)
           qtBinPath == qtPath \o << <<"msvc2019_64">>, <<"bin">> >>
           plugins == qtPath \o << <<"msvc2019_64">>, <<"plugins">> >>
           dlls == {file \in ReadDir(fs, qtBinPath) : EndsWith(file, <<".dll">>)}
           f1 == CopyInto(fs, dlls, qtBinPath, appDirAbs, run)
           f2 == CopyInto(f1, Range(pluginDirs), plugins, appDirAbs, run)
       IN IF ~IsDir(fs, qtBinPath)
          THEN Fail("ENOENT") /\ UNCHANGED fs
          ELSE /\ fs' = WriteFile(f2, Append(appDirAbs, <<"qt", ".conf">>),
                                  Text("qt.conf"), run)
               /\ pc' = "EmittingLauncher"
               /\ UNCHANGED error
  /\ UNCHANGED <<config, impl, run, calls, ignoredDirs, copyStack,
                 directDependencies, allDependencies, processedDeps,
                 resolveQueue, resolveStack, depCursor, log, returned>>

----------------------------------------------------------------------------
(* The launcher emitter and the compile step *)

launcherSource ==
  IF impl = "part_001" THEN <<"NodeGuiLauncher", ".c">> ELSE <<"NodeGuiLauncher", ".cs">>
hiddenRunScript ==
  IF impl = "part_001" THEN <<"hidden-run", ".vbs">> ELSE <<"run-hidden", ".ps1">>
startupScript == <<"debug", ".bat">>
compilerScript == <<"_compile", ".bat">>
launcherExe == config.appName \o <<".exe">>

EmitLauncher ==
  /\ pc = "EmittingLauncher"
  /\ LET f1 == WriteFile(fs, Append(appDirAbs, startupScript), Text("debug.bat"), run)
         f2 == WriteFile(f1, Append(appDirAbs, hiddenRunScript), Text("hidden run"), run)
     IN fs' = WriteFile(f2, Append(appDirAbs, launcherSource), Text("launcher source"), run)
  /\ pc' = "Compiling"
  /\ UNCHANGED <<config, impl, run, calls, ignoredDirs, copyStack,
                 directDependencies, allDependencies, processedDeps,
                 resolveQueue, resolveStack, depCursor, log, error, returned>>

\* the compile script is written and run; ok tells whether the compiler ran
\* and exited with 0.  On success the script has written the executable and
\* deleted the launcher source, and packageApp removes the script
CompileThrows(ok) ==
  /\ pc = "Compiling"
  /\ LET f1 == WriteFile(fs, Append(appDirAbs, compilerScript), Text("compile script"), run)
         f2 == WriteFile(f1, Append(appDirAbs, launcherExe), Text("launcher exe"), run)
         f3 == Remove(f2, Append(appDirAbs, launcherSource))
     IN IF ok
        THEN /\ fs' = Remove(f3, Append(appDirAbs, compilerScript))
             /\ pc' = "Done" /\ returned' = appDirAbs
             /\ UNCHANGED <<log, error>>
        ELSE /\ fs' = f1 /\ Fail("Command failed")
             /\ UNCHANGED <<log, returned>>
  /\ UNCHANGED <<config, impl, run, calls, ignoredDirs, copyStack,
                 directDependencies, allDependencies, processedDeps,
                 resolveQueue, resolveStack, depCursor>>
Compile(ok) ==
  /\ pc = "Compiling"
  /\ LET f1 == WriteFile(fs, Append(appDirAbs, compilerScript), Text("compile script"), run)
         f2 == WriteFile(f1, Append(appDirAbs, launcherExe), Text("launcher exe"), run)
         f3 == Remove(f2, Append(appDirAbs, launcherSource))
     IN IF ok
        THEN fs' = Remove(f3, Append(appDirAbs, compilerScript)) /\ UNCHANGED log
        ELSE fs' = f1 /\ log' = Logged("error", <<"Failed to compile launcher">>)
  /\ pc' = "Done"
  /\ returned' = appDirAbs
  /\ UNCHANGED <<config, impl, run, calls, ignoredDirs, copyStack,
                 directDependencies, allDependencies, processedDeps,
                 resolveQueue, resolveStack, depCursor, error>>

CompileOk == Compile(TRUE)
CompileFail == Compile(FALSE)

----------------------------------------------------------------------------
(* The calls the model follows: source trees, packages, output places *)

\* how many calls in succession the model follows
MaxRuns == 2

Impls == {"part_001", "index.js"}

sourcePath == << <<"w">>, <<"proj">> >>
leftpad == <<"leftpad">>
moment == <<"moment">>
lodash == <<"lodash">>
nodeguiOs == <<"@nodegui", sep, "os">>

File(rel, text) == [rel |-> rel, data |-> Text(text)]
mainJs == <<"main", ".js">>
uiMainJs == <<"src", sep, "ui", sep, "main", ".js">>
buildMainJs == <<"build", sep, "main", ".js">>
utilJs == <<"util", ".js">>

\* where the output goes: outside the source directory, in source/build,
\* in source/build/x, in the source directory itself, and two places that make
\* the application directory the source directory or its parent
Locations ==
  { [outputDir |-> << <<"w">>, <<"out">> >>, appName |-> <<"App">>],
    [outputDir |-> sourcePath \o << <<"build">> >>, appName |-> <<"App">>],
    [outputDir |-> sourcePath \o << <<"build">>, <<"x">> >>, appName |-> <<"App">>],
    [outputDir |-> sourcePath, appName |-> <<"App">>],
    [outputDir |-> << <<"w">> >>, appName |-> <<"proj">>],
    [outputDir |-> <<>>, appName |-> <<"w">>] }

Trees ==
  LET base == {File(mainJs, "main.js v1")}
      ui == File(uiMainJs, "ui main")
      sibling == File(<<"build", "2", sep, "x", ".js">>, "build2 x")
      built == File(buildMainJs, "built main")
      git == File(<<".git", sep, "HEAD">>, "git head")
      util == File(utilJs, "util")
  IN { base \cup {util},
       base \cup {ui, sibling},
       base \cup {built, git, util},
       base \cup {ui, sibling, built, git} }

MainFiles == {mainJs, uiMainJs, buildMainJs}

\* a package of node_modules: no directory, a directory without manifest, a
\* manifest that does not parse, a manifest with dependencies
PkgAbsent == [dir |-> FALSE, manifest |-> "none", deps |-> <<>>]
PkgNoManifest == [dir |-> TRUE, manifest |-> "none", deps |-> <<>>]
PkgBad == [dir |-> TRUE, manifest |-> "bad", deps |-> <<lodash>>]
PkgOk(deps) == [dir |-> TRUE, manifest |-> "ok", deps |-> deps]

Graphs ==
  { [p \in {leftpad, moment, lodash} |->
       IF p = leftpad THEN a ELSE IF p = moment THEN b ELSE c] :
    a \in {PkgOk(<<>>), PkgOk(<<moment>>), PkgOk(<<leftpad>>),
           PkgOk(<<moment, nodeguiOs>>), PkgAbsent},
    b \in {PkgAbsent, PkgNoManifest, PkgBad, PkgOk(<<>>), PkgOk(<<leftpad>>),
           PkgOk(<<lodash>>)},
    c \in {PkgAbsent, PkgOk(<<>>), PkgOk(<<leftpad>>)} }

\* the project's package.json: [present, data]
ProjNone == [present |-> FALSE, data |-> NoData]
Proj(data) == [present |-> TRUE, data |-> data]
Projects ==
  { ProjNone, Proj(Broken(<<leftpad>>)), Proj(Json(<<>>)), Proj(Json(<<leftpad>>)),
    Proj(Json(<<leftpad, moment>>)), Proj(Json(<<leftpad, nodeguiOs>>)) }

Extras == {<<>>, <<lodash>>, <<moment, leftpad>>}

\* what is installed below node_modules/@nodegui: files and empty directories
qtRel == <<"nodegui", sep, "miniqt", sep, "5.14.1">>
qodeFile == File(<<"qode", sep, "binaries", sep, "qode", ".exe">>, "qode.exe")
nodeguiFile == File(<<"nodegui", sep, "index", ".js">>, "nodegui")
dllFile == File(qtRel \o <<sep, "msvc2019_64", sep, "bin", sep, "Qt5Core", ".dll">>, "Qt5Core")
toolFile == File(qtRel \o <<sep, "msvc2019_64", sep, "bin", sep, "qmake", ".exe">>, "qmake")
platformFile ==
  File(qtRel \o <<sep, "msvc2019_64", sep, "plugins", sep, "platforms", sep, "qwindows", ".dll">>,
       "qwindows")
styleFile ==
  File(qtRel \o <<sep, "msvc2019_64", sep, "plugins", sep, "styles", sep, "qstyle", ".dll">>,
       "qstyle")

Assets(files, dirs) == [files |-> files, dirs |-> dirs]
fullAssets == Assets({qodeFile, nodeguiFile, dllFile, toolFile, platformFile, styleFile}, {})
AssetSets ==
  { fullAssets,
    Assets({nodeguiFile, dllFile, platformFile}, {}),
    Assets({}, {}),
    Assets({qodeFile}, {}),
    Assets({qodeFile, nodeguiFile}, {}),
    Assets({qodeFile, nodeguiFile}, {<<"nodegui", sep, "miniqt">>}),
    Assets({qodeFile, nodeguiFile, platformFile}, {}),
    Assets({qodeFile, nodeguiFile, dllFile, toolFile}, {}) }

defaultGraph ==
  [p \in {leftpad, moment, lodash} |->
     IF p = leftpad THEN PkgOk(<<moment>>)
     ELSE IF p = moment THEN PkgOk(<<leftpad>>) ELSE PkgAbsent]

Scenario(i, l, r, t, m, g, p, x, a, c) ==
  [impl |-> i, loc |-> l, rel |-> r, tree |-> t, main |-> m, graph |-> g,
   proj |-> p, extra |-> x, assets |-> a, calls |-> c]

defaultLoc == [outputDir |-> << <<"w">>, <<"out">> >>, appName |-> <<"App">>]
defaultTree == {File(mainJs, "main.js v1")}
rerunTree == {File(mainJs, "main.js v1"), File(utilJs, "util")}
defaultProj == Proj(Json(<<leftpad>>))

\* projects that ship a file of their own under a name packageApp generates
ownScriptTrees ==
  { {File(mainJs, "main.js v1"), File(<<"debug", ".bat">>, "project debug.bat")},
    {File(mainJs, "main.js v1"), File(<<"qt", ".conf">>, "project qt.conf")} }

\* the calls followed: every dimension varies against defaults of the others
Scenarios ==
  { Scenario(i, l, FALSE, t, m, defaultGraph, defaultProj, <<>>, fullAssets, 1) :
      i \in Impls, l \in Locations, t \in Trees, m \in MainFiles }
  \cup
  { Scenario("part_001", defaultLoc, FALSE, defaultTree, mainJs, g, p, x, fullAssets, 1) :
      g \in Graphs, p \in {Proj(Json(<<leftpad>>)), Proj(Json(<<moment, leftpad>>))},
      x \in {<<>>, <<lodash>>} }
  \cup
  { Scenario(i, defaultLoc, r, defaultTree, mainJs, defaultGraph, p, x, fullAssets, 1) :
      i \in Impls, r \in BOOLEAN, p \in Projects, x \in Extras }
  \cup
  { Scenario(i, defaultLoc, FALSE, defaultTree, mainJs, defaultGraph, defaultProj, <<>>, a, 1) :
      i \in Impls, a \in AssetSets }
  \cup
  { Scenario(i, l, FALSE, rerunTree, mainJs, defaultGraph, defaultProj, <<>>, fullAssets, c) :
      i \in Impls, l \in Locations, c \in 2..MaxRuns }
  \cup
  { Scenario(i, defaultLoc, FALSE, t, mainJs, defaultGraph, defaultProj, <<>>, fullAssets, 1) :
      i \in Impls, t \in ownScriptTrees }

\* the files and the empty directories of a scenario's file system
ScenarioFiles(sc) ==
  LET nm == sourcePath \o << <<"node_modules">> >>
      pkgs == {p \in DOMAIN sc.graph : sc.graph[p].dir}
  IN {[path |-> PathJoin(sourcePath, f.rel), data |-> f.data] : f \in sc.tree}
     \cup (IF sc.proj.present
           THEN {[path |-> Append(sourcePath, <<"package.json">>), data |-> sc.proj.data]}
           ELSE {})
     \cup {[path |-> PathJoin(nm, p) \o << <<"index", ".js">> >>, data |-> Text("module")] :
             p \in pkgs}
     \cup {[path |-> PathJoin(nm, p) \o << <<"package.json">> >>,
            data |-> IF sc.graph[p].manifest = "ok" THEN Json(sc.graph[p].deps)
                     ELSE Broken(sc.graph[p].deps)] :
             p \in {q \in pkgs : sc.graph[q].manifest # "none"}}
     \cup {[path |-> PathJoin(Append(nm, <<"@nodegui">>), f.rel), data |-> f.data] :
             f \in sc.assets.files}

ScenarioDirs(sc) ==
  {sourcePath \o << <<"node_modules">> >>}
  \cup {PathJoin(sourcePath \o << <<"node_modules">>, <<"@nodegui">> >>, d) : d \in sc.assets.dirs}

\* the file system holding these files and directories, and their ancestors
MakeFs(files, dirs) ==
  LET paths == UNION {Prefixes(x.path) : x \in files} \cup UNION {Prefixes(d) : d \in dirs}
  IN [p \in paths |->
        IF \E x \in files : x.path = p
        THEN FileNode((CHOOSE x \in files : x.path = p).data, 0)
        ELSE DirNode(0)]

InitFrom(scenarios) ==
  \E sc \in scenarios :
    /\ fs = MakeFs(ScenarioFiles(sc), ScenarioDirs(sc))
    /\ config = [appName |-> sc.loc.appName,
                 sourceDir |-> IF sc.rel THEN [rel |-> TRUE, comps |-> << <<"proj">> >>]
                               ELSE [rel |-> FALSE, comps |-> sourcePath],
                 outputDir |-> sc.loc.outputDir,
                 mainFile |-> sc.main,
                 additionalModules |-> sc.extra]
    /\ impl = sc.impl
    /\ pc = "Initialized"
    /\ run = 1
    /\ calls = sc.calls
    /\ ignoredDirs = <<>>
    /\ copyStack = <<>>
    /\ directDependencies = <<>>
    /\ allDependencies = <<>>
    /\ processedDeps = {}
    /\ resolveQueue = <<>>
    /\ resolveStack = <<>>
    /\ depCursor = 1
    /\ log = {}
    /\ error = "none"
    /\ returned = <<>>

Init == InitFrom(Scenarios)

\* between two calls the developer edits the source: a file is deleted, or
\* the entry file is rewritten
EditSource(f, edit) ==
  IF edit = "drop" THEN Remove(f, Append(sourcePath, utilJs))
  ELSE IF IsFile(f, Append(sourcePath, mainJs))
  THEN WriteFile(f, Append(sourcePath, mainJs), Text("main.js v2"), 0)
  ELSE f

\* the caller calls packageApp again with the same options
Rerun ==
  /\ pc \in {"Done", "Failed"}
  /\ run < calls
  /\ \E edit \in {"drop", "touch"} : fs' = EditSource(fs, edit)
  /\ run' = run + 1
  /\ pc' = "Initialized"
  /\ ignoredDirs' = <<>>
  /\ copyStack' = <<>>
  /\ directDependencies' = <<>>
  /\ allDependencies' = <<>>
  /\ processedDeps' = {}
  /\ resolveQueue' = <<>>
  /\ resolveStack' = <<>>
  /\ depCursor' = 1
  /\ log' = {}
  /\ error' = "none"
  /\ returned' = <<>>
  /\ UNCHANGED <<config, impl, calls>>

Next ==
  \/ Start
  \/ CopyReturn
  \/ CopyStep
  \/ StageMainFile
  \/ StageRuntime
  \/ ReadManifest
  \/ ResolveOuter
  \/ ResolveNested
  \/ ResolveReturn
  \/ ResolveDone
  \/ StageDependency
  \/ DependenciesStaged
  \/ StageQt
  \/ EmitLauncher
  \/ CompileOk
  \/ CompileFail
  \/ Rerun

Spec == Init /\ [][Next]_vars

\* a step of the resolver.  findNestedDependencies awaits nothing but its
\* own calls and reads the manifests synchronously, so a resolver step that
\* can run does run
ResolverStep == ResolveOuter \/ ResolveNested \/ ResolveReturn \/ ResolveDone

FairSpec == Spec /\ WF_vars(ResolverStep)

----------------------------------------------------------------------------
(* Properties *)

RelComps(root, q) == SubSeq(q, Len(root) + 1, Len(q))

\* an exclusion entry names the path or one of its ancestors, component by component
ExcludedBy(dirs, comps) == \E i \in 1..Len(dirs) : IsPrefix(SplitStr(dirs[i]), comps)

\* the files of the source tree that are not part of the application directory
SourceFiles ==
  {q \in DOMAIN fs : IsFile(fs, q) /\ Under(sourceDirAbs, q) /\ ~IsPrefix(appDirAbs, q)}

CopyDone == impl = "part_001" /\ pc = "StagingRuntime"

ManifestReadable(name) ==
  /\ IsFile(fs, modulePackageJsonPath(name))
  /\ fs[modulePackageJsonPath(name)].data.text = "json"

\* C1: the resolver's result set contains every direct dependency it was
\* seeded with, in every state of the resolution and after it.
C1_SeedsStayInClosure == Range(directDependencies) \subseteq Range(allDependencies)

C1_Witness ==
  /\ impl = "part_001" /\ pc = "StagingDependencies"
  /\ Len(directDependencies) >= 2
  /\ Len(allDependencies) > Len(directDependencies)

\* C2: dependency resolution terminates: a run that is resolving dependencies
\* reaches the copy of the dependencies, whatever cycles the graph has.
C2_ResolutionTerminates ==
  (pc = "ResolvingDependencies") ~> (pc = "StagingDependencies")

\* resolution is over for a graph where leftpad and moment depend on each other
C2_Witness ==
  /\ impl = "part_001" /\ pc = "StagingDependencies"
  /\ ManifestReadable(leftpad) /\ ManifestReadable(moment)
  /\ moment \in Range(fs[modulePackageJsonPath(leftpad)].data.deps)
  /\ leftpad \in Range(fs[modulePackageJsonPath(moment)].data.deps)
  /\ {leftpad, moment} \subseteq processedDeps

\* C3: the step that visits a name whose manifest is missing or does not
\* parse keeps the name in the result set, adds no other name, opens no loop
\* over dependencies for it, and leaves the run resolving without an error.
C3_UnreadableManifestIsLeaf ==
  [][\A n \in processedDeps' \ processedDeps :
       ~ManifestReadable(n) =>
         /\ n \in Range(allDependencies')
         /\ Range(allDependencies') \subseteq Range(allDependencies) \cup {n}
         /\ \A i \in 1..Len(resolveStack') : resolveStack'[i].name # n
         /\ pc' = "ResolvingDependencies"
         /\ error' = "none"]_vars

\* resolution is over, having visited a manifest that does not parse and a
\* package without manifest
C3_Witness ==
  /\ impl = "part_001" /\ pc = "StagingDependencies"
  /\ \E n \in processedDeps :
       /\ Exists(fs, modulePackageJsonPath(n)) /\ ~ManifestReadable(n)
       /\ [kind |-> "warn", about |-> n] \in log
       /\ n \in Range(allDependencies)
  /\ \E n \in processedDeps : ~Exists(fs, modulePackageJsonPath(n))

\* C4: when the copier has returned, a source file whose relative path is an
\* exclusion entry or lies below one has no copy in the destination, every
\* other source file has a copy at the same relative path with the same
\* content, and no file of the destination lies at or below an exclusion entry.
C4_CopierRespectsExclusions ==
  CopyDone =>
    /\ \A q \in SourceFiles :
         LET c == RelComps(sourceDirAbs, q) IN
         IF ExcludedBy(ignoredDirs, c) THEN ~Exists(fs, appDirAbs \o c)
         ELSE IsFile(fs, appDirAbs \o c) /\ fs[appDirAbs \o c].data = fs[q].data
    /\ \A x \in DOMAIN fs :
         IsFile(fs, x) /\ Under(appDirAbs, x) =>
           ~ExcludedBy(ignoredDirs, RelComps(appDirAbs, x))

C4_Witness ==
  /\ CopyDone
  /\ Len(ignoredDirs) > Len(fixedIgnoredDirs)
  /\ \E q \in SourceFiles :
       ExcludedBy(<<ignoredDirs[Len(ignoredDirs)]>>, RelComps(sourceDirAbs, q))
  /\ \E q \in SourceFiles :
       /\ Len(RelComps(sourceDirAbs, q)) >= 2
       /\ IsFile(fs, appDirAbs \o RelComps(sourceDirAbs, q))

\* C5: the exclusion test matches whole components: every skipped entry is an
\* exclusion entry or lies below one, and a source file whose relative path
\* only begins with the text of an exclusion entry is copied.
C5_ExclusionMatchesComponents ==
  /\ \A l \in log : l.kind = "skip" => ExcludedBy(ignoredDirs, SplitStr(l.about))
  /\ CopyDone =>
       \A q \in SourceFiles :
         LET c == RelComps(sourceDirAbs, q) IN
         (/\ \E i \in 1..Len(ignoredDirs) : StartsWith(JoinStr(c), ignoredDirs[i])
          /\ ~ExcludedBy(ignoredDirs, c))
         => IsFile(fs, appDirAbs \o c)

\* build is excluded and skipped, and build2/x.js is copied
C5_Witness ==
  /\ CopyDone
  /\ [kind |-> "skip", about |-> <<"build">>] \in log
  /\ IsFile(fs, appDirAbs \o << <<"build", "2">>, <<"x", ".js">> >>)

\* C6: when a call has returned, every entry below the application directory
\* was written by that call: nothing of an earlier call is left.
C6_NoLeftoverFromEarlierRun ==
  pc = "Done" => \A q \in DOMAIN fs : Under(appDirAbs, q) => fs[q].run = run

\* the second call has returned; the application directory is the first
\* call's, and util.js, deleted from the source in between, is not in it
C6_Witness ==
  /\ pc = "Done" /\ run = 2 /\ impl = "part_001"
  /\ fs[appDirAbs].run = 1
  /\ ~Exists(fs, Append(sourcePath, utilJs))
  /\ ~Exists(fs, Append(appDirAbs, utilJs))
  /\ IsFile(fs, Append(appDirAbs, mainJs))

\* the names the project's package.json declares, read from the file itself
DeclaredDependencies ==
  LET p == Append(sourceDirAbs, <<"package.json">>) IN
  IF IsFile(fs, p) /\ fs[p].data.text = "json" THEN Range(fs[p].data.deps) ELSE {}

RECURSIVE Closure(_)
\* the names reached from S through the dependencies of readable manifests
Closure(S) ==
  LET T == S \cup UNION {Range(fs[modulePackageJsonPath(n)].data.deps) :
                          n \in {m \in S : ManifestReadable(m)}}
  IN IF T = S THEN S ELSE Closure(T)

\* C7: when a run of the revised packageApp has returned, every package that
\* the project's package.json declares or that is reached from a declared one,
\* and that has a directory in the source node_modules, has a directory in the
\* node_modules of the application directory.
C7_DeclaredDependenciesCopied ==
  (impl = "part_001" /\ pc = "Done") =>
    \A n \in Closure(DeclaredDependencies) :
      Exists(fs, modulePath(n)) => IsDir(fs, appModulePath(n))

\* C8: a dependency of the result set without directory in the source
\* node_modules is skipped with a warning: the application directory has no
\* directory for it, and a run that failed did not fail at such a dependency.
C8_MissingDependencySkipped ==
  /\ pc \in {"StagingDependencies", "StagingQt", "EmittingLauncher", "Compiling", "Done"} =>
       \A i \in 1..Len(allDependencies) :
         (i < depCursor /\ ~Exists(fs, modulePath(allDependencies[i]))) =>
           /\ [kind |-> "not found", about |-> allDependencies[i]] \in log
           /\ ~Exists(fs, appModulePath(allDependencies[i]))
  /\ pc = "Failed" =>
       \/ depCursor > Len(allDependencies)
       \/ Exists(fs, modulePath(allDependencies[depCursor]))

\* the run has returned although lodash, an additional module, is not installed
C8_Witness ==
  /\ pc = "Done" /\ returned = appDirAbs
  /\ lodash \in Range(config.additionalModules)
  /\ lodash \in Range(allDependencies)
  /\ ~Exists(fs, modulePath(lodash))
  /\ ~Exists(fs, appModulePath(lodash))

\* C9: when the application directory lies inside the source directory, the
\* copier never enters the application directory, and the application
\* directory holds no copy of itself.
C9_OutputDirectorySkipped ==
  (impl = "part_001" /\ Under(sourceDirAbs, appDirAbs)) =>
    /\ \A i \in 1..Len(copyStack) : ~IsPrefix(appDirAbs, copyStack[i].src)
    /\ ~Exists(fs, appDirAbs \o RelComps(sourceDirAbs, appDirAbs))

\* C10: when a run has returned and the entry file exists in the source
\* directory, the application directory holds the entry file at the same
\* relative path.
C10_EntryFileKept ==
  (pc = "Done" /\ IsFile(fs, mainFilePath)) =>
    /\ IsFile(fs, destMainFilePath)
    /\ fs[destMainFilePath].data = fs[mainFilePath].data

CompileFailed == [kind |-> "error", about |-> <<"Failed to compile launcher">>] \in log

\* C11: a step of the compile stage never fails the run: it ends the run in
\* Done with the application directory as the returned value and no error,
\* and when the compiler failed the launcher source is still on disk.
C11_CompileFailureNotFatal ==
  [][pc = "Compiling" =>
       /\ pc' = "Done"
       /\ returned' = appDirAbs
       /\ error' = "none"
       /\ CompileFailed' =>
            /\ IsFile(fs', Append(appDirAbs, launcherSource))
            /\ fs'[Append(appDirAbs, launcherSource)].data = Text("launcher source")]_vars

\* the run has returned after a failed compilation, with the launcher source
\* and without executable
C11_Witness ==
  /\ pc = "Done" /\ CompileFailed
  /\ returned = appDirAbs /\ error = "none"
  /\ IsFile(fs, Append(appDirAbs, launcherSource))
  /\ ~Exists(fs, Append(appDirAbs, launcherExe))

\* the interpreter executable or the @nodegui directory is not installed
MandatoryMissing == ~Exists(fs, QODE_PATH) \/ ~Exists(fs, NODEGUI_DIR)

\* the run has not yet staged the interpreter and the @nodegui directory
RuntimeNotStaged == pc \in {"Initialized", "StagingProject", "StagingRuntime"}

\* C12: while the interpreter executable or the @nodegui directory is absent,
\* a run that has not yet staged them can only go on towards that stage with
\* the asset still absent, or fail: it ends Failed with an error and without a
\* returned path, and cannot reach a later stage or Done.
C12_MandatoryAssetsRequired ==
  [][(RuntimeNotStaged /\ MandatoryMissing) =>
       \/ /\ RuntimeNotStaged' /\ MandatoryMissing'
          /\ run' = run /\ returned' = <<>>
       \/ /\ pc' = "Failed" /\ error' # "none" /\ returned' = <<>>]_vars

\* the run failed at the runtime staging: the project is copied, @nodegui is
\* installed, qode.exe is not
C12_Witness ==
  /\ pc = "Failed" /\ error = "ENOENT" /\ returned = <<>>
  /\ Exists(fs, NODEGUI_DIR) /\ ~Exists(fs, QODE_PATH)
  /\ IsDir(fs, appNodeModules)
  /\ IsFile(fs, destMainFilePath)

\* the run has staged the interpreter and the @nodegui directory
MandatoryStaged ==
  /\ IsFile(fs, appQode) /\ fs[appQode].run = run
  /\ IsDir(fs, appNodeModules \o << <<"@nodegui">> >>)

\* C13: a run whose mandatory assets were present and staged never fails at
\* the staging of the Qt libraries and plugins, whichever of the miniqt
\* directory, its version directory, the bin directory and the plugin
\* directories is missing.
C13_OptionalAssetsNeverFail ==
  [][(pc = "StagingQt" /\ MandatoryStaged) => pc' # "Failed"]_vars

\* C13, for the cases the code guards: without miniqt directory or without
\* version directory in it, the Qt staging goes on to the launcher emitter.
C13_GuardedAssetsNeverFail ==
  [][(/\ pc = "StagingQt"
      /\ ~Exists(fs, MINIQT_PATH) \/ ReadDir(fs, MINIQT_PATH) = {}) =>
       pc' = "EmittingLauncher"]_vars

FilesUnder(p) == {q \in DOMAIN fs : IsFile(fs, q) /\ Under(p, q)}

\* C14: a run whose entry file does not exist under the source directory does
\* not complete, and a run that failed for the missing entry file has left
\* no file in the application directory.
C14_MissingEntryFileFails ==
  /\ pc = "Done" => Exists(fs, mainFilePath)
  /\ (pc = "Failed" /\ error = "Main file not found") =>
       ~Exists(fs, mainFilePath) /\ FilesUnder(appDirAbs) = {}

\* C14 for src/index.js alone, which tests the entry file before it copies
C14_IndexChecksEntryFile == impl = "index.js" => C14_MissingEntryFileFails

\* src/index.js has failed for a missing entry file in a source directory
\* that holds other files
C14_IndexWitness ==
  /\ impl = "index.js" /\ pc = "Failed" /\ error = "Main file not found"
  /\ IsFile(fs, Append(sourcePath, mainJs)) /\ ~Exists(fs, mainFilePath)

\* the error the stage at pc throws when it throws
ThrownAt ==
  IF pc = "StagingProject" /\ impl = "index.js" THEN "Main file not found"
  ELSE IF pc = "StagingDependencies" THEN "Cannot copy to a subdirectory of itself"
  ELSE "ENOENT"

\* C15: a step into Failed is taken by a stage other than the compile stage,
\* within the same call, surfaces the error that stage threw and returns no
\* path; and from Failed the run takes no further step: the only step from
\* Failed is a new call of packageApp.
C15_FailureIsTerminal ==
  [][/\ (pc # "Failed" /\ pc' = "Failed") =>
          /\ pc \notin {"Compiling", "Done"}
          /\ run' = run
          /\ error = "none" /\ error' = ThrownAt
          /\ returned' = <<>>
     /\ pc = "Failed" => (pc' = "Initialized" /\ run' = run + 1)]_vars

\* the run failed at the Qt staging, after the dependencies: the launcher
\* emitter has not run
C15_Witness ==
  /\ pc = "Failed" /\ error = "ENOENT" /\ returned = <<>>
  /\ MandatoryStaged
  /\ Exists(fs, MINIQT_PATH)
  /\ ~Exists(fs, Append(appDirAbs, startupScript))

\* the interpreter and the @nodegui directory are in the application directory
RuntimeInApp ==
  /\ IsFile(fs, appQode)
  /\ IsDir(fs, appNodeModules \o << <<"@nodegui">> >>)

\* the libraries, plugin directories and qt.conf of an installed Qt version
\* are in the application directory
SharedAssetsInApp ==
  (Exists(fs, MINIQT_PATH) /\ ReadDir(fs, MINIQT_PATH) # {}) =>
    \E qtVersion \in ReadDir(fs, MINIQT_PATH) :
      LET qtPath == Append(MINIQT_PATH, qtVersion)
          qtBinPath == qtPath \o << <<"msvc2019_64">>, <<"bin">> >>
          plugins == qtPath \o << <<"msvc2019_64">>, <<"plugins">> >>
      IN /\ \A file \in ReadDir(fs, qtBinPath) :
              EndsWith(file, <<".dll">>) =>
                /\ IsFile(fs, Append(appDirAbs, file))
                /\ fs[Append(appDirAbs, file)].data = fs[Append(qtBinPath, file)].data
         /\ \A i \in 1..Len(pluginDirs) :
              Exists(fs, Append(plugins, pluginDirs[i])) =>
                /\ IsDir(fs, Append(appDirAbs, pluginDirs[i]))
                /\ \A n \in ReadDir(fs, Append(plugins, pluginDirs[i])) :
                     Exists(fs, appDirAbs \o <<pluginDirs[i], n>>)
         /\ IsFile(fs, Append(appDirAbs, <<"qt", ".conf">>))

\* a launcher in one of its forms: the executable or its source
LauncherInApp ==
  \/ IsFile(fs, Append(appDirAbs, launcherExe))
  \/ IsFile(fs, Append(appDirAbs, launcherSource))

\* C16 as stated: when a run has returned, the application directory holds
\* the interpreter, a directory for every name of the resolved dependency set,
\* the shared assets and a launcher.
C16_DoneIsSelfContained ==
  pc = "Done" =>
    /\ RuntimeInApp
    /\ \A n \in Range(allDependencies) : IsDir(fs, appModulePath(n))
    /\ SharedAssetsInApp
    /\ LauncherInApp

\* C16, amended: when a run has returned, the application directory holds the
\* interpreter, a directory for every name of the resolved dependency set that
\* has a directory in the source node_modules, the shared assets and a
\* launcher.
C16_DoneHoldsWhatIsInstalled ==
  pc = "Done" =>
    /\ RuntimeInApp
    /\ \A n \in Range(allDependencies) :
         Exists(fs, modulePath(n)) => IsDir(fs, appModulePath(n))
    /\ SharedAssetsInApp
    /\ LauncherInApp

\* the run has returned with the Qt libraries, a plugin directory, a copied
\* dependency and the executable, and without lodash, which is not installed
C16_Witness ==
  /\ pc = "Done"
  /\ lodash \in Range(allDependencies) /\ ~Exists(fs, modulePath(lodash))
  /\ leftpad \in Range(allDependencies) /\ IsDir(fs, appModulePath(leftpad))
  /\ IsFile(fs, Append(appDirAbs, <<"Qt5Core", ".dll">>))
  /\ IsDir(fs, Append(appDirAbs, <<"platforms">>))
  /\ IsFile(fs, Append(appDirAbs, launcherExe))

\* the stage a position belongs to, when reading the project's package.json
\* counts as the beginning of dependency resolution; qt names the stage of the
\* Qt libraries, plugin directories and qt.conf
StageOf(p, qt) ==
  IF p = "ReadingManifest" THEN "ResolvingDependencies"
  ELSE IF p = "StagingQt" THEN qt
  ELSE p

\* the pairs of successive stages of an order
Successive(order) == {<<order[i], order[i + 1]>> : i \in 1..(Len(order) - 1)}

\* a step follows order: it stays in its stage, moves to the next one, fails,
\* or is a new call
FollowsOrder(order, qt) ==
  \/ StageOf(pc, qt) = StageOf(pc', qt)
  \/ <<StageOf(pc, qt), StageOf(pc', qt)>> \in Successive(order)
  \/ pc' = "Failed" /\ pc \notin {"Done", "Failed"}
  \/ pc \in {"Done", "Failed"} /\ pc' = "Initialized" /\ run' = run + 1

\* what a stage that has completed leaves behind, and a stage that has not
\* begun has not yet done
StagesComplete ==
  /\ pc \in {"StagingRuntime", "ReadingManifest", "ResolvingDependencies",
             "StagingDependencies", "StagingQt", "EmittingLauncher", "Compiling"} =>
       copyStack = <<>>
  /\ pc \in {"ReadingManifest", "ResolvingDependencies", "StagingDependencies",
             "StagingQt", "EmittingLauncher", "Compiling"} => RuntimeInApp
  /\ pc \in {"Initialized", "StagingProject", "StagingRuntime", "ReadingManifest"} =>
       processedDeps = {} /\ allDependencies = <<>>
  /\ pc \in {"StagingDependencies", "StagingQt", "EmittingLauncher", "Compiling"} =>
       resolveStack = <<>> /\ resolveQueue = <<>>
  /\ pc \in {"StagingQt", "EmittingLauncher", "Compiling", "Done"} =>
       depCursor > Len(allDependencies)
  /\ pc \in {"Initialized", "StagingProject", "StagingRuntime", "ReadingManifest",
             "ResolvingDependencies"} =>
       \A n \in Range(allDependencies) : ~Exists(fs, appModulePath(n))
  /\ pc \in {"ReadingManifest", "ResolvingDependencies", "StagingDependencies",
             "StagingQt", "EmittingLauncher"} =>
       ~Exists(fs, Append(appDirAbs, launcherSource))

\* C17 as stated: the stages follow the order project, runtime, resolution,
\* dependencies, launcher, compile, where the runtime stage comprises the
\* interpreter, the @nodegui directory, the Qt libraries, the plugin
\* directories and qt.conf; so all of these are staged when resolution begins.
C17_StagesInStatedOrder ==
  [][/\ FollowsOrder(<<"Initialized", "StagingProject", "StagingRuntime",
                       "ResolvingDependencies", "StagingDependencies",
                       "EmittingLauncher", "Compiling", "Done">>, "StagingRuntime")
     /\ StagesComplete'
     /\ pc' = "ResolvingDependencies" => SharedAssetsInApp']_vars

\* C17, amended: the stages follow the order project, runtime (interpreter and
\* @nodegui directory), resolution, dependencies, shared assets (Qt libraries,
\* plugin directories, qt.conf), launcher, compile; each stage begins when the
\* one before has completed, and qt.conf is not generated before the
\* dependencies are staged.
C17_StagesInCodeOrder ==
  [][/\ FollowsOrder(<<"Initialized", "StagingProject", "StagingRuntime",
                       "ResolvingDependencies", "StagingDependencies",
                       "StagingSharedAssets", "EmittingLauncher", "Compiling",
                       "Done">>, "StagingSharedAssets")
     /\ StagesComplete'
     /\ pc' \in {"ReadingManifest", "ResolvingDependencies", "StagingDependencies",
                 "StagingQt"} =>
          LET conf == Append(appDirAbs, <<"qt", ".conf">>) IN
          ~(IsFile(fs', conf) /\ fs'[conf].data = Text("qt.conf"))]_vars

\* the dependencies are staged and the Qt libraries, which are installed, are
\* not yet
C17_Witness ==
  /\ impl = "part_001" /\ pc = "StagingQt"
  /\ {leftpad, moment} \subseteq processedDeps
  /\ IsDir(fs, appModulePath(leftpad)) /\ IsDir(fs, appModulePath(moment))
  /\ Exists(fs, MINIQT_PATH \o << <<"5.14.1">>, <<"msvc2019_64">>, <<"bin">>, <<"Qt5Core", ".dll">> >>)
  /\ ~Exists(fs, Append(appDirAbs, <<"Qt5Core", ".dll">>))
  /\ ~Exists(fs, Append(appDirAbs, <<"qt", ".conf">>))

RECURSIVE Reachable(_)
\* the names reached from S through the dependency keys of the packages whose
\* manifest exists and parses, without the names that begin with @nodegui/
Reachable(S) ==
  LET next == UNION {Range(fs[modulePackageJsonPath(n)].data.deps) :
                       n \in {m \in S : ManifestReadable(m)}}
      T == S \cup {n \in next : ~StartsWith(n, <<"@nodegui", sep>>)}
  IN IF T = S THEN S ELSE Reachable(T)

\* C18: when resolution has finished, the result set is exactly the set of
\* names reachable from the direct dependencies, and no name of it begins with
\* @nodegui/.
C18_ResultIsReachableSet ==
  (impl = "part_001" /\ pc = "StagingDependencies") =>
    /\ Range(allDependencies) = Reachable(Range(directDependencies))
    /\ \A n \in Range(allDependencies) : ~StartsWith(n, <<"@nodegui", sep>>)

\* resolution has finished for a graph where leftpad depends on moment and on
\* @nodegui/os, and moment on lodash: lodash is in the result by two edges,
\* and @nodegui/os is not
C18_Witness ==
  /\ impl = "part_001" /\ pc = "StagingDependencies"
  /\ Range(directDependencies) = {leftpad}
  /\ ManifestReadable(leftpad) /\ ManifestReadable(moment)
  /\ nodeguiOs \in Range(fs[modulePackageJsonPath(leftpad)].data.deps)
  /\ lodash \in Range(fs[modulePackageJsonPath(moment)].data.deps)
  /\ Range(allDependencies) = {leftpad, moment, lodash}

\* the names whose manifest a resolver step reads: the step marks them
ReadInStep == processedDeps' \ processedDeps

\* C19: during resolution a name once processed stays processed, a step opens
\* the loop over a manifest's keys or warns about a manifest only for a name
\* it marks in that step, so no manifest is read twice; and when resolution
\* has finished the processed set is the result set.
C19_EachManifestReadOnce ==
  [][(impl = "part_001" /\ pc = "ResolvingDependencies") =>
       /\ processedDeps \subseteq processedDeps'
       /\ Cardinality(ReadInStep) <= 1
       /\ Len(resolveStack') > Len(resolveStack) =>
            Top(resolveStack').name \in ReadInStep
       /\ \A l \in log' \ log : l.about \in ReadInStep
       /\ \A i \in 1..Len(resolveStack') : \A j \in 1..Len(resolveStack') :
            resolveStack'[i].name = resolveStack'[j].name => i = j
       /\ pc' = "StagingDependencies" => processedDeps' = Range(allDependencies')]_vars

\* resolution has finished for the graph where leftpad and moment depend on
\* each other and both are direct dependencies: each was met more than once
C19_Witness ==
  /\ impl = "part_001" /\ pc = "StagingDependencies"
  /\ {leftpad, moment} \subseteq Range(directDependencies)
  /\ ManifestReadable(leftpad) /\ ManifestReadable(moment)
  /\ moment \in Range(fs[modulePackageJsonPath(leftpad)].data.deps)
  /\ leftpad \in Range(fs[modulePackageJsonPath(moment)].data.deps)
  /\ processedDeps = Range(allDependencies)

\* the files of the application directory that the running call has written
WrittenByRun ==
  {q \in DOMAIN fs : IsFile(fs, q) /\ Under(appDirAbs, q) /\ fs[q].run = run}

\* C20: no step of the project copy, the runtime staging, the dependency
\* copies, the Qt staging or the launcher emitter writes to a path that an
\* earlier step of the same run has written: a file the run has written keeps
\* its content until the run ends.
C20_NoPathWrittenTwice ==
  [][(/\ pc \in {"StagingProject", "StagingRuntime", "StagingDependencies",
                 "StagingQt", "EmittingLauncher"}
      /\ run' = run) =>
       \A q \in WrittenByRun : q \in DOMAIN fs' /\ fs'[q] = fs[q]]_vars

\* C20 for the projects that hold no file under a name packageApp generates
C20_NoClashWithoutOwnScripts ==
  [][(/\ ~Exists(fs, Append(sourceDirAbs, startupScript))
      /\ ~Exists(fs, Append(sourceDirAbs, <<"qt", ".conf">>))
      /\ pc \in {"StagingProject", "StagingRuntime", "StagingDependencies",
                 "StagingQt", "EmittingLauncher"}
      /\ run' = run) =>
       \A q \in WrittenByRun : q \in DOMAIN fs' /\ fs'[q] = fs[q]]_vars

\* the files under the source directory that no packageApp call has written
OriginalSourceFiles ==
  {q \in DOMAIN fs : IsFile(fs, q) /\ Under(sourceDirAbs, q) /\ fs[q].run = 0}

\* C21: no step of a packaging run deletes or alters a file of the source
\* tree, wherever the application directory lies.
C21_SourceTreeUntouched ==
  [][run' = run =>
       \A q \in OriginalSourceFiles : q \in DOMAIN fs' /\ fs'[q] = fs[q]]_vars

\* C21 for an application directory that is neither the source directory nor
\* one of its ancestors
C21_UntouchedWhenAppDirApart ==
  [][(run' = run /\ ~IsPrefix(appDirAbs, sourceDirAbs)) =>
       \A q \in OriginalSourceFiles : q \in DOMAIN fs' /\ fs'[q] = fs[q]]_vars

====
